---- MODULE Spec2Model ----
(***************************************************************************)
(* The authentication, session-resolution and rate-limit/quota core of the *)
(* gateway: the JWT middleware, the session resolver with its local cache  *)
(* -> session store -> auth store ladder and policy overlay, and the       *)
(* RateLimitAndQuotaCheck middleware.  Requests are served concurrently;   *)
(* every access to a shared store is one step of the request that makes it.*)
(***************************************************************************)
EXTENDS Integers, Sequences, FiniteSets, TLC

VARIABLES
    cfg,           \* gateway and API configuration, fixed for a run
    now,           \* wall clock, in ticks
    pc,            \* pc[r]: where request slot r stands in the middleware chain
    req,           \* req[r]: the request (API it targets, token it carries)
    loc,           \* loc[r]: locals kept across the blocking points of a handler
    ctx,           \* ctx[r]: gorilla context of the request (SessionData, AuthHeaderValue)
    resp,          \* resp[r]: status code, events and health samples of the request
    sessionStore,  \* SessionManager: key -> [s, ttl]
    sessionCache,  \* SessionCache (in-process): key -> SessionState
    cacheTasks,    \* goroutines `go SessionCache.Set(key, s)` not yet run
    writeTasks,    \* goroutines `go UpdateSession(key, s, 0)` not yet run
    ctxTasks,      \* goroutines `go context.Set(r, SessionData, s)` not yet run
    rateCtr,       \* limiter: key -> rate window
    quotaCtr,      \* limiter: key -> quota counter
    JWKCache,      \* [nil, m]: the process-wide JWK cache, API-ID -> JWKs
    jwkStat,       \* per API-ID: fetches and cache Sets inside the current 240 s window
    lastCalls,     \* the ApplyPolicyIfExists calls made by the latest step
    winStat,       \* per limited key: answers given inside the current rate window
    budget         \* requests the clients may still send

vars == <<cfg, now, pc, req, loc, ctx, resp, sessionStore, sessionCache, cacheTasks,
          writeTasks, ctxTasks, rateCtr, quotaCtr, JWKCache, jwkStat, lastCalls, winStat,
          budget>>

-----------------------------------------------------------------------------
(* Bounds of the model *)

\* concurrent request slots
NumReqs == 2
\* the clock is not read beyond this time
MaxNow == 2
\* requests sent in one run
MaxRequests == 2
\* requests sent in one run of the limiter specification
MaxBurst == 3

Reqs == 1..NumReqs

-----------------------------------------------------------------------------
(* Program constants *)

SessionData == 0
AuthHeaderValue == 1
APISessionKeySuffix == ".API-"

\* A claim or header that the token does not carry (Go: nil interface).
Nil == "<nil>"

APIIDs == {"A1", "A2"}
OrgID == "O1"

-----------------------------------------------------------------------------
(* Data model: SessionState and Policy *)

\* map[string]string: a nil map reads "" for every key, like a map without the key
NilMap == [isNil |-> TRUE, m |-> [a \in APIIDs |-> ""]]
MapA1(pid) == [isNil |-> FALSE, m |-> [a \in APIIDs |-> IF a = "A1" THEN pid ELSE ""]]
MapA2(pid) == [isNil |-> FALSE, m |-> [a \in APIIDs |-> IF a = "A2" THEN pid ELSE ""]]

\* SessionState{}: the zero value
ZeroSession ==
    [Allowance |-> 0, Rate |-> 0, Per |-> 0,
     QuotaMax |-> 0, QuotaRemaining |-> 0, QuotaRenewalRate |-> 0, QuotaRenews |-> 0,
     PolicyPerAPI |-> NilMap, AccessRights |-> {}, HMACEnabled |-> FALSE,
     IsInactive |-> FALSE, Tags |-> <<>>, ApplyPolicyID |-> "",
     OauthClientID |-> "", JWTSecret |-> ""]

Policy(org, rate, qmax, ppa, tags) ==
    [OrgID |-> org, Rate |-> rate, Per |-> 1, QuotaMax |-> qmax, QuotaRenewalRate |-> 2,
     PolicyPerAPI |-> ppa, AccessRights |-> APIIDs, HMACEnabled |-> FALSE,
     IsInactive |-> FALSE, Tags |-> tags]

\* The policy registry: loaded at startup, read-only on the request path.
Policies ==
    [pid \in {"P_plain", "P_base", "P_fast", "P_other", "P_xmap", "P_a2"} |->
        CASE pid = "P_plain" -> Policy("O1", 1, 2, NilMap, <<"plain">>)
          [] pid = "P_base"  -> Policy("O1", 1, 2, MapA1("P_fast"), <<"base">>)
          [] pid = "P_fast"  -> Policy("O1", 2, 2, NilMap, <<"fast">>)
          [] pid = "P_other" -> Policy("O2", 2, 2, NilMap, <<"other">>)
          [] pid = "P_xmap"  -> Policy("O1", 1, 2, MapA1("P_other"), <<"xmap">>)
          [] pid = "P_a2"    -> Policy("O1", 1, 2, MapA2("P_fast"), <<"a2">>)]

-----------------------------------------------------------------------------
(* Configuration *)

\* API definition of API-ID `api` under the run's configuration.
\* JWTSource: "" (keys hold their own secret), an inline base64 secret, or a JWKS URL.
APISpec(api) ==
    [APIID |-> api, OrgID |-> OrgID,
     JWTSource |-> CASE cfg.Mode = "direct" -> ""
                     [] cfg.Mode = "inline" -> "czNjcjN0"
                     [] cfg.Mode = "url"    -> "https://idp/jwks",
     JWTSigningMethod |-> cfg.Method,
     JWTIdentityBaseField |-> "email",
     JWTPolicyFieldName |-> "pol",
     SessionLifetime |-> 3]

\* Sessions of key "k1" as the key store holds them.
SeedSession(seed) ==
    LET base == [ZeroSession EXCEPT !.Allowance = 1, !.Rate = 1, !.Per = 1,
                    !.QuotaMax = 2, !.QuotaRemaining = 2, !.QuotaRenewalRate = 2,
                    !.AccessRights = APIIDs, !.JWTSecret = "s3cr3t"]
    IN CASE seed = "map"   -> [base EXCEPT !.PolicyPerAPI = MapA1("P_fast")]
         [] seed = "pol"   -> [base EXCEPT !.ApplyPolicyID = "P_base"]
         [] seed = "xorg"  -> [base EXCEPT !.ApplyPolicyID = "P_other",
                                           !.PolicyPerAPI = MapA1("P_other")]
         [] seed = "gone"  -> [base EXCEPT !.ApplyPolicyID = "P_gone",
                                           !.PolicyPerAPI = MapA1("P_gone")]
         [] seed = "plain" -> base

\* AuthManager: the lower-level key store.  Central-authority APIs hold no keys.
AuthStore ==
    IF cfg.Mode = "direct" THEN [k \in {"k1"} |-> SeedSession(cfg.Seed)]
    ELSE [k \in {} |-> ZeroSession]

IsKeyAuthorised(key) ==
    IF key \in DOMAIN AuthStore THEN [s |-> AuthStore[key], found |-> TRUE]
    ELSE [s |-> ZeroSession, found |-> FALSE]

\* SessionManager over a store with per-entry TTL.
GetSessionDetail(store, key) ==
    IF key \in DOMAIN store THEN [s |-> store[key].s, found |-> TRUE]
    ELSE [s |-> ZeroSession, found |-> FALSE]

UpdateSession(store, key, s, ttl) ==
    [k \in DOMAIN store \cup {key} |-> IF k = key THEN [s |-> s, ttl |-> ttl] ELSE store[k]]

-----------------------------------------------------------------------------
(* Session resolver.  A world w = [store, ctasks, calls] is threaded through   *)
(* the calls of one handler: the session store, the spawned cache goroutines  *)
(* and the record of ApplyPolicyIfExists calls.                               *)

\* An overlay that forgets the tags.
OverlayPolicyNoTags(s, policy) ==
    [s EXCEPT !.Allowance = policy.Rate, !.Rate = policy.Rate, !.Per = policy.Per,
              !.QuotaMax = policy.QuotaMax, !.QuotaRenewalRate = policy.QuotaRenewalRate,
              !.PolicyPerAPI = policy.PolicyPerAPI, !.AccessRights = policy.AccessRights,
              !.HMACEnabled = policy.HMACEnabled, !.IsInactive = policy.IsInactive]

\* An overlay that also refills the quota.
OverlayPolicyRefill(s, policy) ==
    [s EXCEPT !.Allowance = policy.Rate, !.Rate = policy.Rate, !.Per = policy.Per,
              !.QuotaMax = policy.QuotaMax, !.QuotaRenewalRate = policy.QuotaRenewalRate,
              !.PolicyPerAPI = policy.PolicyPerAPI, !.AccessRights = policy.AccessRights,
              !.HMACEnabled = policy.HMACEnabled, !.IsInactive = policy.IsInactive,
              !.Tags = policy.Tags, !.QuotaRemaining = policy.QuotaMax]

OverlayPolicy(s, policy) ==
    [s EXCEPT !.Allowance = policy.Rate, !.Rate = policy.Rate, !.Per = policy.Per,
              !.QuotaMax = policy.QuotaMax, !.QuotaRenewalRate = policy.QuotaRenewalRate,
              !.PolicyPerAPI = policy.PolicyPerAPI, !.AccessRights = policy.AccessRights,
              !.HMACEnabled = policy.HMACEnabled, !.IsInactive = policy.IsInactive,
              !.Tags = policy.Tags]

Logged(w, key, strip, sIn, sOut, storeOut) ==
    [w EXCEPT !.store = storeOut,
              !.calls = Append(@, [key |-> key, strip |-> strip, pid |-> sIn.ApplyPolicyID,
                                   in |-> sIn, out |-> sOut, before |-> w.store,
                                   after |-> storeOut])]

\* A policy application without the organization check.
ApplyPolicyAnyOrg(key, thisSession, stripPolicyID, api, w) ==
    IF thisSession.ApplyPolicyID # "" /\ thisSession.ApplyPolicyID \in DOMAIN Policies
    THEN LET s1 == OverlayPolicy(thisSession, Policies[thisSession.ApplyPolicyID])
             s2 == IF stripPolicyID THEN [s1 EXCEPT !.ApplyPolicyID = ""] ELSE s1
         IN [s |-> s2,
             w |-> Logged(w, key, stripPolicyID, thisSession, s2,
                          UpdateSession(w.store, key, s2, APISpec(api).SessionLifetime))]
    ELSE [s |-> thisSession, w |-> Logged(w, key, stripPolicyID, thisSession, thisSession, w.store)]

ApplyPolicyIfExists(key, thisSession, stripPolicyID, api, w) ==
    IF thisSession.ApplyPolicyID # "" /\ thisSession.ApplyPolicyID \in DOMAIN Policies
    THEN LET policy == Policies[thisSession.ApplyPolicyID] IN
         IF policy.OrgID # APISpec(api).OrgID
         THEN [s |-> thisSession, w |-> Logged(w, key, stripPolicyID, thisSession, thisSession, w.store)]
         ELSE LET s1 == OverlayPolicy(thisSession, policy)
                  s2 == IF stripPolicyID THEN [s1 EXCEPT !.ApplyPolicyID = ""] ELSE s1
              IN [s |-> s2,
                  w |-> Logged(w, key, stripPolicyID, thisSession, s2,
                               UpdateSession(w.store, key, s2, APISpec(api).SessionLifetime))]
    ELSE [s |-> thisSession, w |-> Logged(w, key, stripPolicyID, thisSession, thisSession, w.store)]

Spawn(w, key, s) == [w EXCEPT !.ctasks = @ \cup {[key |-> key, s |-> s]}]

\* A ladder whose auth rung leaves the write-back to the session store out.
checkSessionNoWriteBack(key, api, w) ==
    LET Hit(a, rung) == [s |-> a.s, found |-> TRUE, w |-> a.w, rung |-> rung]
        FromStore(g) ==
            Hit(ApplyPolicyIfExists(key, g.s, FALSE, api, Spawn(w, key, g.s)), "store")
        FromAuth(g) ==
            IF g.found
            THEN Hit(ApplyPolicyIfExists(key, g.s, FALSE, api, Spawn(w, key, g.s)), "auth")
            ELSE [s |-> g.s, found |-> FALSE, w |-> w, rung |-> "none"]
        FromLadder(g) == IF g.found THEN FromStore(g) ELSE FromAuth(IsKeyAuthorised(key))
    IN IF ~cfg.CacheDisabled /\ key \in DOMAIN sessionCache
       THEN Hit(ApplyPolicyIfExists(key, sessionCache[key], FALSE, api, w), "cache")
       ELSE FromLadder(GetSessionDetail(w.store, key))

\* A ladder whose cache rung hands the cached session back as it is.
checkSessionCacheAsIs(key, api, w) ==
    LET Hit(a, rung) == [s |-> a.s, found |-> TRUE, w |-> a.w, rung |-> rung]
        FromAuth(g) ==
            IF g.found
            THEN [s |-> g.s, found |-> TRUE,
                  w |-> [Spawn(w, key, g.s) EXCEPT !.store =
                            UpdateSession(@, key, g.s, APISpec(api).SessionLifetime)],
                  rung |-> "auth"]
            ELSE [s |-> g.s, found |-> FALSE, w |-> w, rung |-> "none"]
        FromLadder(g) ==
            IF g.found
            THEN Hit(ApplyPolicyIfExists(key, g.s, FALSE, api, Spawn(w, key, g.s)), "store")
            ELSE FromAuth(IsKeyAuthorised(key))
    IN IF ~cfg.CacheDisabled /\ key \in DOMAIN sessionCache
       THEN [s |-> sessionCache[key], found |-> TRUE, w |-> w, rung |-> "cache"]
       ELSE FromLadder(GetSessionDetail(w.store, key))

checkSessionAndValidateKey(key, api, w) ==
    LET Hit(a, rung) == [s |-> a.s, found |-> TRUE, w |-> a.w, rung |-> rung]
        Stored(a) == [s |-> a.s, found |-> TRUE,
                      w |-> [a.w EXCEPT !.store =
                                UpdateSession(@, key, a.s, APISpec(api).SessionLifetime)],
                      rung |-> "auth"]
        FromStore(g) ==
            Hit(ApplyPolicyIfExists(key, g.s, FALSE, api, Spawn(w, key, g.s)), "store")
        FromAuth(g) ==
            IF g.found
            THEN Stored(ApplyPolicyIfExists(key, g.s, FALSE, api, Spawn(w, key, g.s)))
            ELSE [s |-> g.s, found |-> FALSE, w |-> w, rung |-> "none"]
        FromLadder(g) == IF g.found THEN FromStore(g) ELSE FromAuth(IsKeyAuthorised(key))
    IN IF ~cfg.CacheDisabled /\ key \in DOMAIN sessionCache
       THEN Hit(ApplyPolicyIfExists(key, sessionCache[key], FALSE, api, w), "cache")
       ELSE FromLadder(GetSessionDetail(w.store, key))

APISessionKey(key, api) == key \o APISessionKeySuffix \o api

CheckSessionAndIdentityForValidKey(key, api, w) ==
    LET apiSessionKey == APISessionKey(key, api)
        Ret(b, w2, apiRung) ==
            [s |-> b.s, found |-> b.found, w |-> w2, rung |-> b.rung, apiRung |-> apiRung]
        Created(b, a) == Ret(b, a.w, "none")
        PerAPI(b, p) ==
            IF ~p.found
            THEN Created(b, ApplyPolicyIfExists(apiSessionKey,
                               [p.s EXCEPT !.ApplyPolicyID = b.s.PolicyPerAPI.m[api]],
                               TRUE, api, p.w))
            ELSE Ret(b, p.w, p.rung)
        Base(b) ==
            IF b.found /\ ~b.s.PolicyPerAPI.isNil /\ b.s.PolicyPerAPI.m[api] # ""
            THEN PerAPI(b, checkSessionAndValidateKey(apiSessionKey, api, b.w))
            ELSE Ret(b, b.w, "skip")
    IN Base(checkSessionAndValidateKey(key, api, w))

-----------------------------------------------------------------------------
(* Limiter: the store-side rate window and quota counter, keyed like the     *)
(* session they guard.                                                       *)

PutCtr(f, key, v) == [k \in DOMAIN f \cup {key} |-> IF k = key THEN v ELSE f[k]]

\* The rate window of `key` that a request arriving at time t falls into.
RateWindow(s, key, rate, t) ==
    IF key \in DOMAIN rate /\ t < rate[key].start + s.Per THEN rate[key]
    ELSE [start |-> t, n |-> 0]

QuotaWindow(s, key, quota, t) ==
    IF key \notin DOMAIN quota
    THEN [remaining |-> s.QuotaMax, renews |-> t + s.QuotaRenewalRate]
    ELSE IF t >= quota[key].renews
    THEN [remaining |-> s.QuotaMax, renews |-> quota[key].renews + s.QuotaRenewalRate]
    ELSE quota[key]

\* ForwardMessage(&session, key, store): one atomic operation of the store.
\* reason: 0 = ok, 1 = rate, 2 = quota; rate is reported when both fail.
ForwardMessage(s, key, rate, quota, t) ==
    LET win == RateWindow(s, key, rate, t)
        q   == QuotaWindow(s, key, quota, t)
    IN IF win.n >= s.Rate
       THEN [forward |-> FALSE, reason |-> 1, s |-> s,
             rate |-> PutCtr(rate, key, win), quota |-> quota]
       ELSE IF q.remaining <= 0
       THEN [forward |-> FALSE, reason |-> 2,
             s |-> [s EXCEPT !.QuotaRemaining = 0, !.QuotaRenews = q.renews],
             rate |-> PutCtr(rate, key, [win EXCEPT !.n = @ + 1]),
             quota |-> PutCtr(quota, key, q)]
       ELSE [forward |-> TRUE, reason |-> 0,
             s |-> [s EXCEPT !.QuotaRemaining = q.remaining - 1, !.QuotaRenews = q.renews],
             rate |-> PutCtr(rate, key, [win EXCEPT !.n = @ + 1]),
             quota |-> PutCtr(quota, key, [q EXCEPT !.remaining = @ - 1])]

\* The verdicts the limiter can hand back.  Under cfg.Limiter = "any" the limiter is
\* an arbitrary collaborator: every (forward, reason) pair, counters left alone.
LimiterVerdicts(s, key, t) ==
    IF cfg.Limiter = "contract" THEN {ForwardMessage(s, key, rateCtr, quotaCtr, t)}
    ELSE {[forward |-> f, reason |-> x, s |-> s, rate |-> rateCtr, quota |-> quotaCtr] :
             f \in BOOLEAN, x \in 0..3}

-----------------------------------------------------------------------------
(* RateLimitAndQuotaCheck *)

\* A selection that limits the per-API session under the base key.
SelectLimitedBaseKey(thisSessionState, authHeaderValue, api, store) ==
    LET perAPI == GetSessionDetail(store, APISessionKey(authHeaderValue, api))
    IN IF ~thisSessionState.PolicyPerAPI.isNil /\ perAPI.found
       THEN [key |-> authHeaderValue, s |-> perAPI.s]
       ELSE [key |-> authHeaderValue, s |-> thisSessionState]

\* ProcessRequest: which session and key the limiter is applied to.
SelectLimited(thisSessionState, authHeaderValue, api, store) ==
    LET apiSessionKey == APISessionKey(authHeaderValue, api)
        perAPI == GetSessionDetail(store, apiSessionKey)
    IN IF ~thisSessionState.PolicyPerAPI.isNil /\ perAPI.found
       THEN [key |-> apiSessionKey, s |-> perAPI.s]
       ELSE [key |-> authHeaderValue, s |-> thisSessionState]

\* A verdict mapping that lets rate-limited requests through.
LimitOutcomeNoThrottle(forwardMessage, reason) ==
    IF ~forwardMessage /\ reason = 2
    THEN [code |-> 403, events |-> <<"QuotaExceeded">>, health |-> <<"QuotaViolation">>]
    ELSE [code |-> 200, events |-> <<>>, health |-> <<>>]

\* A verdict mapping that answers an exhausted quota like an exceeded rate.
LimitOutcomeQuotaAsRate(forwardMessage, reason) ==
    IF ~forwardMessage
    THEN IF reason = 1 \/ reason = 2
         THEN [code |-> 429, events |-> <<"RateLimitExceeded">>, health |-> <<"Throttle">>]
         ELSE [code |-> 403, events |-> <<>>, health |-> <<>>]
    ELSE [code |-> 200, events |-> <<>>, health |-> <<>>]

\* applyRateLimiting, after the session write: verdict -> status, events, health samples.
LimitOutcome(forwardMessage, reason) ==
    IF ~forwardMessage
    THEN IF reason = 1
         THEN [code |-> 429, events |-> <<"RateLimitExceeded">>, health |-> <<"Throttle">>]
         ELSE IF reason = 2
         THEN [code |-> 403, events |-> <<"QuotaExceeded">>, health |-> <<"QuotaViolation">>]
         ELSE [code |-> 403, events |-> <<>>, health |-> <<>>]
    ELSE [code |-> 200, events |-> <<>>, health |-> <<>>]

-----------------------------------------------------------------------------
(* JWT middleware: tokens, keys, identity *)

\* Secrets and certificates as the verifier sees them, and their base64 forms.
B64Decode(str) ==
    CASE str = "czNjcjN0"     -> "s3cr3t"
      [] str = "Y2VydC1LMQ==" -> "cert-K1"
      [] OTHER                -> ""

\* fmt.Sprintf("%x", md5.Sum(data)) of the identities the tokens carry
Md5Hex(data) ==
    CASE data = "a@x" -> "4895b1d4ed83c6da448e89f72e1103a0"
      [] data = "b@x" -> "205111a56270af10d6268190d84b6076"
      [] data = "u1"  -> "e4774cdda0793f86414e8b9140bb6db4"
      [] data = "k1"  -> "b637b17af08aced8850c18cccde915da"

\* The key a central-authority token must be signed with under the run's JWTSource.
CentralKey == IF cfg.Mode = "url" THEN "cert-K1" ELSE "s3cr3t"
CentralAlg == IF cfg.Mode = "url" THEN "RSA" ELSE "HMAC"

Token(alg, kid, sub, email, pol, signedWith) ==
    [ok |-> TRUE, alg |-> alg, kid |-> kid, sub |-> sub, email |-> email, pol |-> pol,
     signedWith |-> signedWith]

\* The tokens clients present; a token is what its id names.
TokenOf(id) ==
    CASE id = "t_k1"    -> Token("HMAC", Nil, "k1", Nil, Nil, "s3cr3t")
      [] id = "t_bad"   -> Token("HMAC", Nil, "k1", Nil, Nil, "forged")
      [] id = "c_base"  -> Token(CentralAlg, "K1", Nil, "a@x", "P_base", CentralKey)
      [] id = "c_plain" -> Token(CentralAlg, "K1", "u1", Nil, "P_plain", CentralKey)
      [] id = "c_xorg"  -> Token(CentralAlg, "K1", Nil, "b@x", "P_other", CentralKey)
      [] id = "c_gone"  -> Token(CentralAlg, "K1", Nil, "b@x", "P_gone", CentralKey)
      [] id = "c_nopol" -> Token(CentralAlg, "K1", Nil, "b@x", Nil, CentralKey)
      [] id = "c_bad"   -> Token(CentralAlg, "K1", Nil, "a@x", "P_base", "forged")
      [] id = "c_move"  -> Token(CentralAlg, "K1", Nil, "a@x", "P_a2", CentralKey)
      [] id = "c_nokid" -> Token(CentralAlg, Nil, "u1", Nil, "P_plain", CentralKey)
      [] id = "e_k1"    -> Token("ECDSA", "K1", "k1", Nil, Nil, "ec-key")

\* token.Claims[name].(string): the value and whether the assertion succeeded
Claim(tok, name) ==
    LET v == CASE name = "sub" -> tok.sub
               [] name = "email" -> tok.email
               [] name = "pol" -> tok.pol
               [] OTHER -> Nil
    IN [v |-> IF v = Nil THEN "" ELSE v, found |-> v # Nil]

getIdentityFomToken(tok) ==
    IF tok.kid # Nil THEN [id |-> tok.kid, found |-> TRUE]
    ELSE IF tok.sub # Nil THEN [id |-> tok.sub, found |-> TRUE]
    ELSE [id |-> "", found |-> FALSE]

\* A gate that lets every token through when the declared method is not one of the
\* three it knows.
MethodMatchesKnownOnly(api, tok) ==
    LET m == APISpec(api).JWTSigningMethod IN
    CASE m = "hmac"  -> tok.alg = "HMAC"
      [] m = "rsa"   -> tok.alg = "RSA"
      [] m = "ecdsa" -> tok.alg = "ECDSA"
      [] OTHER       -> TRUE

\* The signing-method gate of the key function: does the token's family match the API's?
MethodMatches(api, tok) ==
    LET m == APISpec(api).JWTSigningMethod IN
    CASE m = "hmac"  -> tok.alg = "HMAC"
      [] m = "rsa"   -> tok.alg = "RSA"
      [] m = "ecdsa" -> tok.alg = "ECDSA"
      [] OTHER       -> tok.alg = "HMAC"

IsURL(src) == src = "https://idp/jwks"

\* What the JWKS endpoint serves.
RemoteJWKs == <<[KID |-> "K1", Kty |-> "RSA", X5c |-> <<"Y2VydC1LMQ==">>]>>

\* strings.ToLower on the key types in play
ToLower(str) ==
    CASE str = "RSA" -> "rsa"
      [] str = "EC"  -> "ec"
      [] OTHER       -> str

\* getSecretFromURL, the scan of the key set: first JWK with the kid and key type.
RECURSIVE ScanJWKs(_, _, _, _)
ScanJWKs(keys, i, kid, keyType) ==
    IF i > Len(keys) THEN [secret |-> "", err |-> "No matching KID could be found"]
    ELSE IF keys[i].KID = kid /\ ToLower(keys[i].Kty) = ToLower(keyType)
    THEN IF Len(keys[i].X5c) > 0
         THEN [secret |-> B64Decode(keys[i].X5c[1]), err |-> ""]
         ELSE [secret |-> "", err |-> "No certificates in JWK!"]
    ELSE ScanJWKs(keys, i + 1, kid, keyType)


\* A session id that leaves the organization out.
SessionIDWithoutOrg(api, baseFieldData) == Md5Hex(baseFieldData)

SessionIDOf(api, baseFieldData) == APISpec(api).OrgID \o Md5Hex(baseFieldData)

PolicySession(policy) == OverlayPolicy(ZeroSession, policy)

\* A central-authority resolution that takes a policy of any organization.
JWTCentralAnyOrg(tok, api, w) ==
    LET baseClaim == Claim(tok, APISpec(api).JWTIdentityBaseField)
        subClaim  == Claim(tok, "sub")
        SessionID == SessionIDOf(api, IF baseClaim.found THEN baseClaim.v ELSE subClaim.v)
        polClaim == Claim(tok, APISpec(api).JWTPolicyFieldName)
        Fail(w2, how) == [code |-> 403, bind |-> FALSE, s |-> ZeroSession, key |-> "",
                          w |-> w2, how |-> how]
        Create(res, s) ==
            [code |-> 200, bind |-> TRUE, s |-> s, key |-> SessionID,
             w |-> [res.w EXCEPT !.store =
                       UpdateSession(@, SessionID, s, APISpec(api).SessionLifetime)],
             how |-> "created"]
        Resolved(res) ==
            IF res.found
            THEN [code |-> 200, bind |-> TRUE, s |-> res.s, key |-> SessionID, w |-> res.w,
                  how |-> "found"]
            ELSE IF ~polClaim.found
            THEN Fail(res.w, "nopolicy")
            ELSE IF polClaim.v \notin DOMAIN Policies
            THEN Fail(res.w, "unknownpolicy")
            ELSE Create(res, PolicySession(Policies[polClaim.v]))
    IN IF ~baseClaim.found /\ ~subClaim.found
       THEN Fail(w, "noident")
       ELSE Resolved(CheckSessionAndIdentityForValidKey(SessionID, api, w))

\* A central-authority resolution that binds the context whatever the outcome.
JWTCentralBindAlways(tok, api, w) == [JWTCentralAnyOrg(tok, api, w) EXCEPT !.bind = TRUE]

\* A central-authority branch that binds the session it made without storing it.
JWTCentralUnstored(tok, api, w) == [JWTCentralAnyOrg(tok, api, w) EXCEPT !.w = w]

\* Central-authority mode, after the signature verified (ProcessRequest).
\* Returns the status, the world after the call and what is bound to the context.
JWTCentral(tok, api, w) ==
    LET baseClaim == Claim(tok, APISpec(api).JWTIdentityBaseField)
        subClaim  == Claim(tok, "sub")
        baseFieldData == IF baseClaim.found THEN baseClaim.v ELSE subClaim.v
        SessionID == SessionIDOf(api, baseFieldData)
        polClaim == Claim(tok, APISpec(api).JWTPolicyFieldName)
        Fail(w2, how) == [code |-> 403, bind |-> FALSE, s |-> ZeroSession, key |-> "",
                          w |-> w2, how |-> how]
        Create(res, s) ==
            [code |-> 200, bind |-> TRUE, s |-> s, key |-> SessionID,
             w |-> [res.w EXCEPT !.store =
                       UpdateSession(@, SessionID, s, APISpec(api).SessionLifetime)],
             how |-> "created"]
        Resolved(res) ==
            IF res.found
            THEN [code |-> 200, bind |-> TRUE, s |-> res.s, key |-> SessionID, w |-> res.w,
                  how |-> "found"]
            ELSE IF ~polClaim.found
            THEN Fail(res.w, "nopolicy")
            ELSE IF polClaim.v \notin DOMAIN Policies
            THEN Fail(res.w, "unknownpolicy")
            ELSE IF Policies[polClaim.v].OrgID # APISpec(api).OrgID
            THEN Fail(res.w, "crossorg")
            ELSE Create(res, PolicySession(Policies[polClaim.v]))
    IN IF ~baseClaim.found /\ ~subClaim.found
       THEN Fail(w, "noident")
       ELSE Resolved(CheckSessionAndIdentityForValidKey(SessionID, api, w))

\* Direct mode, after the signature verified.
JWTDirect(tok, api, w) ==
    LET ident == getIdentityFomToken(tok)
        Resolved(res) ==
            IF ~res.found
            THEN [code |-> 403, bind |-> FALSE, s |-> ZeroSession, key |-> "", w |-> res.w,
                  how |-> "unauthorized"]
            ELSE [code |-> 200, bind |-> TRUE, s |-> res.s, key |-> ident.id, w |-> res.w,
                  how |-> "found"]
    IN IF ~ident.found
       THEN [code |-> 403, bind |-> FALSE, s |-> ZeroSession, key |-> "", w |-> w,
             how |-> "noident"]
       ELSE Resolved(CheckSessionAndIdentityForValidKey(ident.id, api, w))

-----------------------------------------------------------------------------
(* State *)

NoReq == [api |-> "", hdr |-> "", form |-> "", cookie |-> ""]
NoResp == [code |-> 0, events |-> <<>>, health |-> <<>>, how |-> ""]
NoCtx == [sdSet |-> FALSE, sd |-> ZeroSession, akSet |-> FALSE, ak |-> ""]
LocInit ==
    [secret |-> "", s1 |-> ZeroSession, f1 |-> FALSE, own |-> {}, touched |-> {},
     s2 |-> ZeroSession, f2 |-> FALSE, twice |-> FALSE, apiRung |-> "",
     key |-> "", sess |-> ZeroSession, forward |-> FALSE, reason |-> 0,
     win |-> 0, ord |-> 0, cred |-> ""]
NoMap == [k \in {} |-> 0]

InitWith(c) ==
    /\ cfg = c
    /\ now = 0
    /\ pc = [r \in Reqs |-> "idle"]
    /\ req = [r \in Reqs |-> NoReq]
    /\ loc = [r \in Reqs |-> LocInit]
    /\ ctx = [r \in Reqs |-> NoCtx]
    /\ resp = [r \in Reqs |-> NoResp]
    /\ sessionStore = [k \in DOMAIN AuthStore |->
                          [s |-> AuthStore[k], ttl |-> APISpec("A1").SessionLifetime]]
    /\ sessionCache = NoMap
    /\ cacheTasks = {}
    /\ writeTasks = {}
    /\ ctxTasks = {}
    /\ rateCtr = NoMap
    /\ quotaCtr = NoMap
    /\ JWKCache = [nil |-> TRUE, m |-> NoMap]
    /\ jwkStat = [a \in APIIDs |-> [gets |-> 0, sets |-> 0]]
    /\ lastCalls = <<>>
    /\ winStat = NoMap
    /\ budget = c.Requests

BaseCfg ==
    [Mode |-> "direct", Method |-> "hmac", Async |-> FALSE, CacheDisabled |-> FALSE, Seed |-> "map",
     Limiter |-> "contract", Tokens |-> {"t_k1"}, APIs |-> APIIDs,
     UseParam |-> FALSE, UseCookie |-> FALSE, Requests |-> MaxRequests, MaxTime |-> 0,
     Forms |-> {""}, Cookies |-> {""}]

World == [store |-> sessionStore, ctasks |-> cacheTasks, calls |-> <<>>]

Remove(f, key) == [k \in DOMAIN f \ {key} |-> f[k]]

\* Credential extraction: the header, replaced by the form value under use_param,
\* replaced by the cookie (or "") under use_cookie.
ExtractCredential(q) ==
    LET fromParam == IF cfg.UseParam THEN q.form ELSE q.hdr
    IN IF cfg.UseCookie THEN q.cookie ELSE fromParam

\* The key a request in direct mode resolves (kid, else sub).
IdentityKey(x) == getIdentityFomToken(TokenOf(ExtractCredential(req[x]))).id

\* Requests between their two resolutions of one key note what other actors change:
\* the session store, or the local cache entry of their key (other than by the cache
\* goroutine their own first resolution spawned).
Noted(r, store2, cacheKey, task) ==
    [x \in Reqs |->
        IF x # r /\ pc[x] = "jwt_verify" /\ cfg.Mode = "direct"
        THEN [loc[x] EXCEPT !.touched =
                 @ \cup (IF store2 # sessionStore THEN {"store"} ELSE {})
                   \cup (IF cacheKey = IdentityKey(x) /\ task \notin loc[x].own
                         THEN {"cache"} ELSE {})]
        ELSE loc[x]]

NoTask == [key |-> "", s |-> ZeroSession]

-----------------------------------------------------------------------------
(* Requests entering and leaving the chain *)

\* A client sends a request to one of the APIs, carrying one of the tokens; it is
\* served in the lowest free slot.  It is a new request object: the context holds
\* nothing for it.
NewRequest(r) ==
    /\ pc[r] = "idle"
    /\ budget > 0
    /\ budget' = budget - 1
    /\ \A x \in Reqs : x < r => pc[x] # "idle"
    /\ \A t \in ctxTasks : t.r # r
    /\ \E api \in cfg.APIs, tok \in cfg.Tokens, form \in cfg.Forms, cookie \in cfg.Cookies :
          req' = [req EXCEPT ![r] = [api |-> api, hdr |-> tok, form |-> form,
                                    cookie |-> cookie]]
    /\ pc' = [pc EXCEPT ![r] = "jwt"]
    /\ ctx' = [ctx EXCEPT ![r] = NoCtx]
    /\ resp' = resp
    /\ lastCalls' = <<>>
    /\ UNCHANGED <<cfg, now, loc, sessionStore, sessionCache, cacheTasks, writeTasks,
                   ctxTasks, rateCtr, quotaCtr, JWKCache, jwkStat, winStat>>

\* End of the request: the response is out and context.Clear(r) has run.
EndRequest(r) ==
    /\ pc[r] = "responded"
    /\ pc' = [pc EXCEPT ![r] = "idle"]
    /\ ctx' = [ctx EXCEPT ![r] = NoCtx]
    /\ loc' = [loc EXCEPT ![r] = LocInit]
    /\ req' = [req EXCEPT ![r] = NoReq]
    /\ resp' = [resp EXCEPT ![r] = NoResp]
    /\ lastCalls' = <<>>
    /\ UNCHANGED <<cfg, now, sessionStore, sessionCache, cacheTasks, writeTasks,
                   ctxTasks, rateCtr, quotaCtr, JWKCache, jwkStat, winStat, budget>>

-----------------------------------------------------------------------------
(* JWTMiddleware.ProcessRequest *)

\* The else branch of ProcessRequest: AuthFailed event, KeyFailure sample, 403.
AuthFailure ==
    [code |-> 403, events |-> <<"AuthFailed">>, health |-> <<"KeyFailure">>,
     how |-> "invalid"]

\* getSecret for the three key sources, as called from the key function of jwt.Parse.
\* next: where the request goes on; err: the key function fails.
getSecret(tok, api, w) ==
    LET src == APISpec(api).JWTSource
        ident == getIdentityFomToken(tok)
        skip == [err |-> FALSE, secret |-> "", w |-> w, s1 |-> ZeroSession, f1 |-> FALSE,
                 own |-> {}, apiRung |-> ""]
        Resolved(res) ==
            IF ~res.found
            THEN [skip EXCEPT !.err = TRUE, !.w = res.w] @@ [next |-> "responded"]
            ELSE [err |-> FALSE, secret |-> res.s.JWTSecret, w |-> res.w, s1 |-> res.s,
                  f1 |-> TRUE, own |-> res.w.ctasks \ w.ctasks, apiRung |-> res.apiRung,
                  next |-> "jwt_verify"]
    IN IF src # ""
       THEN IF IsURL(src)
            THEN IF tok.kid = Nil
                 THEN skip @@ [next |-> "crashed"]
                 ELSE skip @@ [next |-> IF JWKCache.nil THEN "jwk_new" ELSE "jwk_get"]
            ELSE [skip EXCEPT !.secret = B64Decode(src)] @@ [next |-> "jwt_verify"]
       ELSE IF ~ident.found
       THEN [skip EXCEPT !.err = TRUE] @@ [next |-> "responded"]
       ELSE Resolved(CheckSessionAndIdentityForValidKey(ident.id, api, w))

\* First part of ProcessRequest: extract the credential, parse it, check the signing
\* method and get the verification key (up to its first blocking point).
JWT_GetSecret(r) ==
    /\ pc[r] = "jwt"
    /\ LET api == req[r].api
           rawJWT == ExtractCredential(req[r])
           tok == TokenOf(rawJWT)
           Rejected(answer) ==
               /\ pc' = [pc EXCEPT ![r] = "responded"]
               /\ resp' = [resp EXCEPT ![r] = answer]
               /\ lastCalls' = <<>>
               /\ loc' = [loc EXCEPT ![r].cred = rawJWT]
               /\ UNCHANGED <<sessionStore, cacheTasks>>
           Keyed(g) ==
               /\ pc' = [pc EXCEPT ![r] = g.next]
               /\ resp' = [resp EXCEPT ![r] = IF g.err THEN AuthFailure ELSE NoResp]
               /\ sessionStore' = g.w.store
               /\ cacheTasks' = g.w.ctasks
               /\ lastCalls' = g.w.calls
               /\ loc' = [Noted(r, g.w.store, "", NoTask) EXCEPT ![r] =
                             [LocInit EXCEPT !.secret = g.secret, !.s1 = g.s1,
                                             !.f1 = g.f1, !.own = g.own,
                                             !.apiRung = g.apiRung, !.cred = rawJWT]]
       IN IF rawJWT = ""
          THEN Rejected([NoResp EXCEPT !.code = 400, !.how = "missing"])
          ELSE IF ~tok.ok \/ ~MethodMatches(api, tok)
          THEN Rejected(AuthFailure)
          ELSE Keyed(getSecret(tok, api, World))
    /\ UNCHANGED <<cfg, now, req, ctx, sessionCache, writeTasks, ctxTasks, rateCtr,
                   quotaCtr, JWKCache, jwkStat, winStat, budget>>

\* Second part: the signature is checked against the key; a valid token is resolved
\* to its session (central authority or direct) and bound to the context.
JWT_Verify(r) ==
    /\ pc[r] = "jwt_verify"
    /\ LET api == req[r].api
           tok == TokenOf(ExtractCredential(req[r]))
           valid == loc[r].secret # "" /\ tok.signedWith = loc[r].secret
           Bound(out) ==
               /\ pc' = [pc EXCEPT ![r] = IF out.code = 200 THEN "authed" ELSE "responded"]
               /\ resp' = [resp EXCEPT ![r] = [NoResp EXCEPT !.code = out.code, !.how = out.how]]
               /\ ctx' = [ctx EXCEPT ![r] =
                            IF out.bind
                            THEN [sdSet |-> TRUE, sd |-> out.s, akSet |-> TRUE, ak |-> out.key]
                            ELSE @]
               /\ sessionStore' = out.w.store
               /\ cacheTasks' = out.w.ctasks
               /\ lastCalls' = out.w.calls
               /\ loc' = [Noted(r, out.w.store, "", NoTask) EXCEPT ![r] =
                             [@ EXCEPT !.s2 = out.s, !.f2 = out.bind,
                                       !.twice = (cfg.Mode = "direct")]]
       IN IF ~valid
          THEN /\ pc' = [pc EXCEPT ![r] = "responded"]
               /\ resp' = [resp EXCEPT ![r] = AuthFailure]
               /\ lastCalls' = <<>>
               /\ loc' = [loc EXCEPT ![r] = LocInit]
               /\ UNCHANGED <<ctx, sessionStore, cacheTasks>>
          ELSE IF APISpec(api).JWTSource # ""
          THEN Bound(JWTCentral(tok, api, World))
          ELSE Bound(JWTDirect(tok, api, World))
    /\ UNCHANGED <<cfg, now, req, sessionCache, writeTasks, ctxTasks, rateCtr, quotaCtr,
                   JWKCache, jwkStat, winStat, budget>>

-----------------------------------------------------------------------------
(* getSecretFromURL: the JWK cache and the remote fetch *)

\* ghost counters saturate here
CountCap == 3

Bump(n) == IF n < CountCap THEN n + 1 ELSE n

\* The key lookup in a JWK set, and where the request goes with the result.
AfterScan(r, keys) ==
    LET tok == TokenOf(ExtractCredential(req[r]))
        found == ScanJWKs(keys, 1, tok.kid, APISpec(req[r].api).JWTSigningMethod)
    IN IF found.err # ""
       THEN /\ pc' = [pc EXCEPT ![r] = "responded"]
            /\ resp' = [resp EXCEPT ![r] = AuthFailure]
            /\ loc' = [loc EXCEPT ![r] = LocInit]
       ELSE /\ pc' = [pc EXCEPT ![r] = "jwt_verify"]
            /\ resp' = resp
            /\ loc' = [loc EXCEPT ![r] = [LocInit EXCEPT !.secret = found.secret]]

\* `if JWKCache == nil { JWKCache = cache.New(...) }`: the assignment, made by a
\* request that saw nil; it replaces whatever cache another request installed meanwhile.
JWK_New(r) ==
    /\ pc[r] = "jwk_new"
    /\ JWKCache' = [nil |-> FALSE, m |-> NoMap]
    /\ pc' = [pc EXCEPT ![r] = "jwk_get"]
    /\ lastCalls' = <<>>
    /\ UNCHANGED <<cfg, now, req, loc, ctx, resp, sessionStore, sessionCache, cacheTasks,
                   writeTasks, ctxTasks, rateCtr, quotaCtr, jwkStat, winStat, budget>>

\* JWKCache.Get(APIID): a hit goes on with the cached set, a miss goes to fetch.
JWK_Get(r) ==
    /\ pc[r] = "jwk_get"
    /\ IF req[r].api \in DOMAIN JWKCache.m
       THEN AfterScan(r, JWKCache.m[req[r].api])
       ELSE /\ pc' = [pc EXCEPT ![r] = "jwk_fetch"]
            /\ UNCHANGED <<resp, loc>>
    /\ lastCalls' = <<>>
    /\ UNCHANGED <<cfg, now, req, ctx, sessionStore, sessionCache, cacheTasks,
                   writeTasks, ctxTasks, rateCtr, quotaCtr, JWKCache, jwkStat, winStat, budget>>

\* http.Get(url) and what follows it: a network error fails the key function; a body
\* that is no JWKS returns (nil, nil); a JWKS is cached and scanned.
JWK_Fetch(r) ==
    /\ pc[r] = "jwk_fetch"
    /\ \E outcome \in {"ok", "neterr", "badjson"} :
          LET api == req[r].api IN
          IF outcome = "ok"
          THEN /\ JWKCache' = [JWKCache EXCEPT !.m = PutCtr(@, api, RemoteJWKs)]
               /\ jwkStat' = [jwkStat EXCEPT ![api] = [gets |-> Bump(@.gets),
                                                       sets |-> Bump(@.sets)]]
               /\ AfterScan(r, RemoteJWKs)
          ELSE /\ jwkStat' = [jwkStat EXCEPT ![api].gets = Bump(@)]
               /\ JWKCache' = JWKCache
               /\ IF outcome = "neterr"
                  THEN /\ pc' = [pc EXCEPT ![r] = "responded"]
                       /\ resp' = [resp EXCEPT ![r] = AuthFailure]
                       /\ loc' = [loc EXCEPT ![r] = LocInit]
                  ELSE /\ pc' = [pc EXCEPT ![r] = "jwt_verify"]
                       /\ resp' = resp
                       /\ loc' = [loc EXCEPT ![r] = LocInit]
    /\ lastCalls' = <<>>
    /\ UNCHANGED <<cfg, now, req, ctx, sessionStore, sessionCache, cacheTasks,
                   writeTasks, ctxTasks, rateCtr, quotaCtr, winStat, budget>>

\* The 240 s lifetime of a cached JWK set runs out: a new window begins.
JWK_Expire(api) ==
    /\ api \in DOMAIN JWKCache.m
    /\ JWKCache' = [JWKCache EXCEPT !.m = Remove(@, api)]
    /\ jwkStat' = [jwkStat EXCEPT ![api] = [gets |-> 0, sets |-> 0]]
    /\ lastCalls' = <<>>
    /\ UNCHANGED <<cfg, now, pc, req, loc, ctx, resp, sessionStore, sessionCache,
                   cacheTasks, writeTasks, ctxTasks, rateCtr, quotaCtr, winStat, budget>>

-----------------------------------------------------------------------------
(* RateLimitAndQuotaCheck.ProcessRequest *)

\* The session is taken from the context, the limited session selected and the
\* limiter asked (one store operation).  The limiter is the one reader of the clock:
\* it sees the time that has passed since the clock was last read.
RL_Forward(r) ==
    /\ pc[r] = "authed"
    /\ ctx[r].sdSet /\ ctx[r].akSet
    /\ LET sel == SelectLimited(ctx[r].sd, ctx[r].ak, req[r].api, sessionStore) IN
       \E t \in now..cfg.MaxTime : \E v \in LimiterVerdicts(sel.s, sel.key, t) :
          LET start == IF sel.key \in DOMAIN v.rate THEN v.rate[sel.key].start ELSE 0
              old == IF sel.key \in DOMAIN winStat /\ winStat[sel.key].start = start
                     THEN winStat[sel.key]
                     ELSE [start |-> start, ok |-> 0, reqs |-> 0, rate |-> sel.s.Rate]
              new == [old EXCEPT !.reqs = Bump(@)]
          IN /\ now' = t
             /\ rateCtr' = v.rate
             /\ quotaCtr' = v.quota
             /\ winStat' = PutCtr(winStat, sel.key, new)
             /\ loc' = [loc EXCEPT ![r] =
                          [LocInit EXCEPT !.key = sel.key, !.sess = v.s,
                                          !.forward = v.forward, !.reason = v.reason,
                                          !.win = start, !.ord = new.reqs]]
    /\ pc' = [pc EXCEPT ![r] = "rl_write"]
    /\ lastCalls' = <<>>
    /\ UNCHANGED <<cfg, req, ctx, resp, sessionStore, sessionCache, cacheTasks,
                   writeTasks, ctxTasks, JWKCache, jwkStat, budget>>

\* A write-back that always leaves the store and the context to background tasks.
RL_FinishDeferred(r) ==
    /\ pc[r] = "rl_write"
    /\ LET out == LimitOutcome(loc[r].forward, loc[r].reason)
       IN /\ writeTasks' = writeTasks \cup {[key |-> loc[r].key, s |-> loc[r].sess]}
          /\ ctxTasks' = ctxTasks \cup {[r |-> r, s |-> loc[r].sess]}
          /\ resp' = [resp EXCEPT ![r] = [code |-> out.code, events |-> out.events,
                                          health |-> out.health, how |-> "limited"]]
    /\ pc' = [pc EXCEPT ![r] = "responded"]
    /\ lastCalls' = <<>>
    /\ UNCHANGED <<cfg, now, req, loc, ctx, sessionStore, sessionCache, cacheTasks, rateCtr,
                   quotaCtr, JWKCache, jwkStat, winStat, budget>>

\* applyRateLimiting after ForwardMessage: the session is written back and bound
\* to the context (by goroutines under use_async_session_write), then the verdict
\* decides the answer.
RL_Finish(r) ==
    /\ pc[r] = "rl_write"
    /\ LET key == loc[r].key
           s == loc[r].sess
           out == LimitOutcome(loc[r].forward, loc[r].reason)
           store2 == IF cfg.Async THEN sessionStore ELSE UpdateSession(sessionStore, key, s, 0)
       IN /\ sessionStore' = store2
          /\ ctx' = IF cfg.Async THEN ctx ELSE [ctx EXCEPT ![r].sdSet = TRUE, ![r].sd = s]
          /\ writeTasks' = IF cfg.Async THEN writeTasks \cup {[key |-> key, s |-> s]}
                           ELSE writeTasks
          /\ ctxTasks' = IF cfg.Async THEN ctxTasks \cup {[r |-> r, s |-> s]} ELSE ctxTasks
          /\ resp' = [resp EXCEPT ![r] = [code |-> out.code, events |-> out.events,
                                          health |-> out.health, how |-> "limited"]]
          /\ winStat' = IF out.code = 200 /\ key \in DOMAIN winStat
                           /\ winStat[key].start = loc[r].win
                        THEN [winStat EXCEPT ![key].ok = Bump(@)]
                        ELSE winStat
          /\ loc' = Noted(r, store2, "", NoTask)
    /\ pc' = [pc EXCEPT ![r] = "responded"]
    /\ lastCalls' = <<>>
    /\ UNCHANGED <<cfg, now, req, sessionCache, cacheTasks, rateCtr, quotaCtr, JWKCache,
                   jwkStat, budget>>

-----------------------------------------------------------------------------
(* Goroutines and the environment *)

\* `go k.Spec.SessionManager.UpdateSession(key, thisSessionState, 0)`
BgUpdateSession(t) ==
    /\ t \in writeTasks
    /\ writeTasks' = writeTasks \ {t}
    /\ sessionStore' = UpdateSession(sessionStore, t.key, t.s, 0)
    /\ loc' = Noted(0, sessionStore', "", NoTask)
    /\ lastCalls' = <<>>
    /\ UNCHANGED <<cfg, now, pc, req, ctx, resp, sessionCache, cacheTasks, ctxTasks,
                   rateCtr, quotaCtr, JWKCache, jwkStat, winStat, budget>>

\* `go context.Set(r, SessionData, thisSessionState)`
BgContextSet(t) ==
    /\ t \in ctxTasks
    /\ ctxTasks' = ctxTasks \ {t}
    /\ ctx' = [ctx EXCEPT ![t.r].sdSet = TRUE, ![t.r].sd = t.s]
    /\ lastCalls' = <<>>
    /\ UNCHANGED <<cfg, now, pc, req, loc, resp, sessionStore, sessionCache, cacheTasks,
                   writeTasks, rateCtr, quotaCtr, JWKCache, jwkStat, winStat, budget>>

\* `go SessionCache.Set(key, thisSession, cache.DefaultExpiration)`
BgCacheSet(t) ==
    /\ t \in cacheTasks
    /\ cacheTasks' = cacheTasks \ {t}
    /\ sessionCache' = PutCtr(sessionCache, t.key, t.s)
    /\ loc' = Noted(0, sessionStore, t.key, t)
    /\ lastCalls' = <<>>
    /\ UNCHANGED <<cfg, now, pc, req, ctx, resp, sessionStore, writeTasks, ctxTasks,
                   rateCtr, quotaCtr, JWKCache, jwkStat, winStat, budget>>

\* The local cache drops an entry whose (10 s) lifetime is over.
CacheEvict(key) ==
    /\ key \in DOMAIN sessionCache
    /\ sessionCache' = Remove(sessionCache, key)
    /\ loc' = Noted(0, sessionStore, key, NoTask)
    /\ lastCalls' = <<>>
    /\ UNCHANGED <<cfg, now, pc, req, ctx, resp, sessionStore, cacheTasks, writeTasks,
                   ctxTasks, rateCtr, quotaCtr, JWKCache, jwkStat, winStat, budget>>

\* The session store drops an entry whose TTL is over (entries written with
\* TTL 0 carry no expiry).
ExpireSession(key) ==
    /\ key \in DOMAIN sessionStore
    /\ sessionStore[key].ttl > 0
    /\ sessionStore' = Remove(sessionStore, key)
    /\ loc' = Noted(0, sessionStore', "", NoTask)
    /\ lastCalls' = <<>>
    /\ UNCHANGED <<cfg, now, pc, req, ctx, resp, sessionCache, cacheTasks, writeTasks,
                   ctxTasks, rateCtr, quotaCtr, JWKCache, jwkStat, winStat, budget>>

-----------------------------------------------------------------------------
(* Specifications *)

\* The middleware chain of a request.
Chain ==
    \/ \E r \in Reqs : NewRequest(r)
    \/ \E r \in Reqs : JWT_GetSecret(r)
    \/ \E r \in Reqs : JWT_Verify(r)
    \/ \E r \in Reqs : RL_Forward(r)
    \/ \E r \in Reqs : RL_Finish(r)
    \/ \E r \in Reqs : EndRequest(r)

\* Keys that carry their own secret (direct mode), resolved through the ladder with
\* the local cache enabled; store entries expire, cache entries are set and evicted.
Next ==
    \/ Chain
    \/ \E t \in cacheTasks : BgCacheSet(t)
    \/ \E k \in DOMAIN sessionCache : CacheEvict(k)
    \/ \E k \in DOMAIN sessionStore : ExpireSession(k)

DirectCfgs ==
    {[BaseCfg EXCEPT !.Seed = seed, !.APIs = {"A1"}] : seed \in {"pol", "xorg", "gone"}}

Init == \E c \in DirectCfgs : InitWith(c)

Spec == Init /\ [][Next]_vars

\* The keys the ladder is asked for: a key, its per-API key and a key nobody holds.
LadderKeys == {"k1", APISessionKey("k1", "A1"), "k0"}

\* What the ladder must answer for `key` in the current state.
LadderAnswer(key, api, res) ==
    LET cached == ~cfg.CacheDisabled /\ key \in DOMAIN sessionCache
        stored == key \in DOMAIN sessionStore
        authed == IsKeyAuthorised(key).found
        Overlaid(src) == ApplyPolicyIfExists(key, src, FALSE, api, World).s
    IN /\ res.found = (cached \/ stored \/ authed)
       /\ cached => (res.rung = "cache" /\ res.s = Overlaid(sessionCache[key])
                      /\ res.w.ctasks = cacheTasks)
       /\ (~cached /\ stored) => (res.rung = "store" /\ res.s = Overlaid(sessionStore[key].s))
       /\ (~cached /\ ~stored /\ authed)
             => /\ res.rung = "auth"
                /\ res.s = Overlaid(IsKeyAuthorised(key).s)
                /\ res.w.store = UpdateSession(sessionStore, key, res.s,
                                               APISpec(api).SessionLifetime)
       /\ (~cached /\ ~stored /\ ~authed)
             => /\ res.rung = "none"
                /\ res.s = ZeroSession
                /\ res.w.store = sessionStore
                /\ res.w.ctasks = cacheTasks

\* C20: checkSessionAndValidateKey answers from the first rung of cache (when
\* enabled), session store, auth store that holds the key, with the policy overlay
\* applied; an answer from the auth store is written back to the session store with
\* the session lifetime of the API; when no rung holds the key it answers (zero
\* session, not found) and writes neither the store nor the cache.
C20_LadderOrder ==
    \A key \in LadderKeys : \A api \in cfg.APIs :
        LadderAnswer(key, api, checkSessionAndValidateKey(key, api, World))

C20_Witness ==
    /\ Len(lastCalls) > 0
    /\ lastCalls[1].key = "k1"
    /\ "k1" \notin DOMAIN lastCalls[1].before
    /\ "k1" \notin DOMAIN sessionCache
    /\ "k1" \in DOMAIN sessionStore
    /\ sessionStore["k1"].ttl = APISpec("A1").SessionLifetime
    /\ "k0" \notin DOMAIN sessionStore

-----------------------------------------------------------------------------
(* Properties of the resolver specification *)

\* C3: a call of ApplyPolicyIfExists changes the session or the SessionStore only
\* when the named policy is in the registry under the organization of the API; when
\* the policy belongs to another organization the session is returned as it came
\* (ApplyPolicyID included) and the store is left as it was.
C3_CrossOrgNoOp ==
    \A i \in 1..Len(lastCalls) :
        LET c == lastCalls[i]
            sameOrg == c.pid \in DOMAIN Policies /\ Policies[c.pid].OrgID = OrgID
        IN /\ (c.out # c.in \/ c.after # c.before) => sameOrg
           /\ (c.pid \in DOMAIN Policies /\ Policies[c.pid].OrgID # OrgID)
                 => (c.out = c.in /\ c.after = c.before)

\* A step that called ApplyPolicyIfExists with a policy of another organization.
C3_Witness ==
    \E i \in 1..Len(lastCalls) :
        /\ lastCalls[i].pid \in DOMAIN Policies
        /\ Policies[lastCalls[i].pid].OrgID # OrgID
        /\ lastCalls[i].out.ApplyPolicyID = lastCalls[i].pid

\* The fields ApplyPolicyIfExists overlays, compared between a session and a policy.
OverlayedFieldsEqual(s, policy) ==
    /\ s.Rate = policy.Rate /\ s.Per = policy.Per
    /\ s.QuotaMax = policy.QuotaMax /\ s.QuotaRenewalRate = policy.QuotaRenewalRate
    /\ s.PolicyPerAPI = policy.PolicyPerAPI /\ s.AccessRights = policy.AccessRights
    /\ s.HMACEnabled = policy.HMACEnabled /\ s.IsInactive = policy.IsInactive
    /\ s.Tags = policy.Tags

\* The store holds the per-API session of `key` under `api`, equal to policy `pid`.
PerAPIEntryOf(store, key, api, pid) ==
    /\ APISessionKey(key, api) \in DOMAIN store
    /\ pid \in DOMAIN Policies
    /\ OverlayedFieldsEqual(store[APISessionKey(key, api)].s, Policies[pid])

\* Request r has just made its first resolution, of a key whose base session maps
\* the API of the request to a policy.
ResolvedWithPerAPI(r) ==
    /\ pc[r] = "jwt" /\ pc'[r] = "jwt_verify"
    /\ loc'[r].f1
    /\ ~loc'[r].s1.PolicyPerAPI.isNil
    /\ loc'[r].s1.PolicyPerAPI.m[req[r].api] # ""

OverlayFrame(c, api) ==
    /\ (c.pid = "" \/ c.pid \notin DOMAIN Policies)
          => (c.out = c.in /\ c.after = c.before)
    /\ (c.pid \in DOMAIN Policies /\ Policies[c.pid].OrgID = APISpec(api).OrgID)
          => /\ OverlayedFieldsEqual(c.out, Policies[c.pid])
             /\ c.out.QuotaRemaining = c.in.QuotaRemaining
             /\ c.out.QuotaRenews = c.in.QuotaRenews
             /\ c.out.JWTSecret = c.in.JWTSecret
             /\ c.out.OauthClientID = c.in.OauthClientID
             /\ c.out.ApplyPolicyID = (IF c.strip THEN "" ELSE c.in.ApplyPolicyID)
             /\ c.after = UpdateSession(c.before, c.key, c.out, APISpec(api).SessionLifetime)

\* C21 as stated: ApplyPolicyIfExists overlays the listed fields (rate, per, quota
\* max, quota renewal rate, per-API map, access rights, HMAC flag, inactive flag,
\* tags) and nothing else: every other field of the session leaves the call as it
\* entered, ApplyPolicyID apart, which is cleared exactly under stripPolicyID.
C21_OverlayListedFieldsOnly ==
    \A i \in 1..Len(lastCalls) : \A api \in cfg.APIs :
        /\ OverlayFrame(lastCalls[i], api)
        /\ lastCalls[i].out.Allowance = lastCalls[i].in.Allowance

\* C21 amended: the same, with the allowance among the overlaid fields: an applied
\* policy sets it to the rate of the policy.
C21_OverlayListedFieldsAndAllowance ==
    \A i \in 1..Len(lastCalls) : \A api \in cfg.APIs :
        /\ OverlayFrame(lastCalls[i], api)
        /\ (lastCalls[i].pid \in DOMAIN Policies
            /\ Policies[lastCalls[i].pid].OrgID = APISpec(api).OrgID)
              => lastCalls[i].out.Allowance = Policies[lastCalls[i].pid].Rate
        /\ (lastCalls[i].pid \notin DOMAIN Policies
            \/ Policies[lastCalls[i].pid].OrgID # APISpec(api).OrgID)
              => lastCalls[i].out.Allowance = lastCalls[i].in.Allowance

\* A step that applied a policy with stripPolicyID to a session whose quota counter
\* differs from the quota of the policy, and one without stripPolicyID.
C21_Witness ==
    \E i, j \in 1..Len(lastCalls) :
        /\ lastCalls[i].strip /\ lastCalls[i].pid \in DOMAIN Policies
        /\ lastCalls[i].out.ApplyPolicyID = ""
        /\ lastCalls[i].out.QuotaRemaining # Policies[lastCalls[i].pid].QuotaMax
        /\ lastCalls[i].after # lastCalls[i].before
        /\ ~lastCalls[j].strip /\ lastCalls[j].pid \in DOMAIN Policies
        /\ lastCalls[j].out.ApplyPolicyID = lastCalls[j].pid
        /\ lastCalls[j].after # lastCalls[j].before

\* C8 as stated: a request that resolved its key twice, with no write to the
\* SessionStore by another actor in between, got equal (SessionState, found) results.
C8_IdempotentWithoutStoreWrites ==
    \A r \in Reqs :
        (loc[r].twice /\ "store" \notin loc[r].touched)
        => (loc[r].s1 = loc[r].s2 /\ loc[r].f1 = loc[r].f2)

\* C8 amended: the same, when in between also the local cache entry of the key was
\* neither evicted nor set by another actor (the cache population spawned by the
\* first resolution may or may not have happened).
C8_IdempotentWithoutChanges ==
    \A r \in Reqs :
        (loc[r].twice /\ loc[r].touched = {})
        => (loc[r].s1 = loc[r].s2 /\ loc[r].f1 = loc[r].f2)

\* Two undisturbed resolutions served by different rungs: the first from the store,
\* the second from the local cache its own population filled.
C8_Witness ==
    \E r \in Reqs :
        /\ loc[r].twice /\ loc[r].touched = {} /\ loc[r].f1 /\ loc[r].f2
        /\ loc[r].own # {}
        /\ loc[r].own \cap cacheTasks = {}
        /\ loc[r].s1 = loc[r].s2

\* The limiter over time: the clock advances, windows roll over, sessions are written
\* back synchronously or by goroutines.  The local cache is disabled.
NextLimit ==
    \/ Chain
    \/ \E t \in writeTasks : BgUpdateSession(t)
    \/ \E t \in ctxTasks : BgContextSet(t)

LimitCfgs ==
    {[BaseCfg EXCEPT !.CacheDisabled = TRUE, !.Async = a, !.Requests = MaxBurst,
                     !.MaxTime = MaxNow] : a \in BOOLEAN}

InitLimit == \E c \in LimitCfgs : InitWith(c)

SpecLimit == InitLimit /\ [][NextLimit]_vars

-----------------------------------------------------------------------------
(* Properties of the limiter specification *)

\* C1: among the requests that reach the limiter with one key inside one (rate, per)
\* window, at most `rate` are answered 200, and every request that is the (rate+1)th
\* or later of its window is answered 429.
C1_RateRespected ==
    /\ \A k \in DOMAIN winStat : winStat[k].ok <= winStat[k].rate
    /\ \A r \in Reqs :
          (resp[r].how = "limited" /\ loc[r].ord > loc[r].sess.Rate) => resp[r].code = 429

\* A window that is used up: `rate` requests answered 200 and a later one 429.
C1_Witness ==
    \E r \in Reqs :
        /\ resp[r].how = "limited" /\ resp[r].code = 429
        /\ loc[r].ord = loc[r].sess.Rate + 1
        /\ loc[r].key \in DOMAIN winStat
        /\ winStat[loc[r].key].start = loc[r].win
        /\ winStat[loc[r].key].ok = loc[r].sess.Rate

\* C2: inside one quota window the synchronous write-back of an allowed request
\* leaves the stored quota_remaining of its key exactly one lower, and the stored
\* value stays within 0..quota_max.
C2_AllowedLowersStoredByOne ==
    [][\A r \in Reqs :
          (/\ pc[r] = "rl_write" /\ pc'[r] = "responded"
           /\ ~cfg.Async /\ loc[r].forward
           /\ loc[r].key \in DOMAIN sessionStore
           /\ sessionStore[loc[r].key].s.QuotaRenews = loc[r].sess.QuotaRenews)
          => /\ sessionStore'[loc[r].key].s.QuotaRemaining
                  = sessionStore[loc[r].key].s.QuotaRemaining - 1
             /\ sessionStore'[loc[r].key].s.QuotaRemaining \in
                  0..sessionStore'[loc[r].key].s.QuotaMax]_vars

\* C14: once the end-of-request clear has run, the context holds neither SessionData
\* nor AuthHeaderValue for that request, whatever the background tasks do.
C14_NothingAfterClear ==
    \A r \in Reqs : pc[r] = "idle" => (~ctx[r].sdSet /\ ~ctx[r].akSet)

-----------------------------------------------------------------------------
(* Central authority: tokens verified with the API's own secret, sessions     *)
(* synthesized from the policy the token names.                               *)

NextCentral ==
    \/ Chain
    \/ \E t \in cacheTasks : BgCacheSet(t)
    \/ \E k \in DOMAIN sessionStore : ExpireSession(k)

CentralCfgs ==
    {[BaseCfg EXCEPT !.Mode = "inline",
                     !.Tokens = {"c_base", "c_plain", "c_xorg", "c_gone", "c_nopol"}]}

InitCentral == \E c \in CentralCfgs : InitWith(c)

SpecCentral == InitCentral /\ [][NextCentral]_vars

\* The token of request r, and the session id its identity claim stands for.
TokenOfReq(r) == TokenOf(ExtractCredential(req[r]))

ExpectedSessionID(r) ==
    OrgID \o Md5Hex(IF TokenOfReq(r).email # Nil THEN TokenOfReq(r).email
                    ELSE TokenOfReq(r).sub)

\* Request r takes the step that resolves its verified central-authority token, and
\* the resolver ladder holds nothing for its session id.
CentralMiss(r) ==
    /\ pc[r] = "jwt_verify" /\ pc'[r] # "jwt_verify"
    /\ APISpec(req[r].api).JWTSource # ""
    /\ TokenOfReq(r).signedWith = loc[r].secret
    /\ ExpectedSessionID(r) \notin DOMAIN sessionStore
    /\ ExpectedSessionID(r) \notin DOMAIN sessionCache

PolicyUsable(pid) == pid \in DOMAIN Policies /\ Policies[pid].OrgID = OrgID

\* C5: a verified central-authority request that is let through is bound to
\* SessionID = OrgID + hex(md5(base field, else sub)); on a resolver miss with a known
\* policy of the API's organization the answer is 200 and the SessionStore gets, at
\* that SessionID and nowhere else, a session with the policy's overlayed fields and
\* TTL = session lifetime.
C5_CentralSessionID ==
    [][\A r \in Reqs :
          /\ (pc[r] = "jwt_verify" /\ pc'[r] = "authed")
                => (ctx'[r].akSet /\ ctx'[r].ak = ExpectedSessionID(r))
          /\ (CentralMiss(r) /\ PolicyUsable(TokenOfReq(r).pol))
                => /\ pc'[r] = "authed" /\ resp'[r].code = 200
                   /\ DOMAIN sessionStore' = DOMAIN sessionStore \cup {ExpectedSessionID(r)}
                   /\ OverlayedFieldsEqual(sessionStore'[ExpectedSessionID(r)].s,
                                           Policies[TokenOfReq(r).pol])
                   /\ sessionStore'[ExpectedSessionID(r)].ttl
                        = APISpec(req[r].api).SessionLifetime
                   /\ ctx'[r].sdSet
                   /\ ctx'[r].sd = sessionStore'[ExpectedSessionID(r)].s]_vars

\* A request let through with a session synthesized at its SessionID.
C5_Witness ==
    \E r \in Reqs :
        /\ pc[r] = "authed" /\ resp[r].how = "created"
        /\ ctx[r].ak = "O14895b1d4ed83c6da448e89f72e1103a0"
        /\ ctx[r].ak \in DOMAIN sessionStore

\* C6: on a resolver miss where the policy claim is absent, names no policy of the
\* registry or names a policy of another organization, the request is answered 403,
\* the SessionStore is unchanged and nothing is bound to the request context.
C6_NoMatchingPolicy ==
    [][\A r \in Reqs :
          (CentralMiss(r) /\ ~PolicyUsable(TokenOfReq(r).pol))
          => /\ pc'[r] = "responded" /\ resp'[r].code = 403
             /\ sessionStore' = sessionStore
             /\ ~ctx'[r].sdSet /\ ~ctx'[r].akSet]_vars

\* A request refused because its policy belongs to another organization.
C6_Witness ==
    \E r \in Reqs :
        /\ pc[r] = "responded" /\ resp[r].code = 403 /\ resp[r].how = "crossorg"
        /\ ~ctx[r].sdSet /\ ~ctx[r].akSet
        /\ ExpectedSessionID(r) \notin DOMAIN sessionStore

\* C9: a request under an API that the base session maps to a known policy of the
\* organization is limited against the per-API session K.API-<api> with that
\* policy's rate, never against the base session.
C9_PerAPILimited ==
    \A r \in Reqs :
        (/\ pc[r] = "rl_write"
         /\ ~ctx[r].sd.PolicyPerAPI.isNil
         /\ PolicyUsable(ctx[r].sd.PolicyPerAPI.m[req[r].api]))
        => /\ loc[r].key = APISessionKey(ctx[r].ak, req[r].api)
           /\ loc[r].sess.Rate = Policies[ctx[r].sd.PolicyPerAPI.m[req[r].api]].Rate

\* C12: a request the JWT middleware has refused for a validation or resolution
\* failure (answer 403) carries exactly one AuthFailed event and one KeyFailure
\* health sample.
C12_RefusalEmitsAuthFailed ==
    \A r \in Reqs :
        (pc[r] = "responded" /\ resp[r].how # "limited" /\ resp[r].code = 403)
        => (resp[r].events = <<"AuthFailed">> /\ resp[r].health = <<"KeyFailure">>)

\* C13: the JWT middleware has answered 200 exactly when it has bound SessionData
\* and AuthHeaderValue; after any other answer, and before its answer, neither is
\* bound; the rate-limit middleware therefore finds both.
C13_BoundIffAuthenticated ==
    \A r \in Reqs :
        /\ pc[r] \in {"authed", "rl_write"}
              => (ctx[r].sdSet /\ ctx[r].akSet /\ ctx[r].ak # "")
        /\ (pc[r] = "authed") => resp[r].code = 200
        /\ (pc[r] \in {"idle", "jwt", "jwt_verify"}
             \/ (pc[r] = "responded" /\ resp[r].how # "limited"))
              => (resp[r].code # 200 /\ ~ctx[r].sdSet /\ ~ctx[r].akSet)

\* One request authenticated and bound while another was refused and is unbound.
C13_Witness ==
    \E r, x \in Reqs :
        /\ pc[r] = "authed" /\ ctx[r].sdSet /\ ctx[r].akSet
        /\ pc[x] = "responded" /\ resp[x].code = 403 /\ ~ctx[x].sdSet

-----------------------------------------------------------------------------
(* Central authority with a JWKS endpoint: the key comes from the JWK cache or *)
(* from a fetch.                                                               *)

NextJWKS ==
    \/ Chain
    \/ \E r \in Reqs : JWK_New(r)
    \/ \E r \in Reqs : JWK_Get(r)
    \/ \E r \in Reqs : JWK_Fetch(r)
    \/ \E a \in APIIDs : JWK_Expire(a)

JWKSCfgs ==
    {[BaseCfg EXCEPT !.Mode = "url", !.Method = "rsa", !.CacheDisabled = TRUE, !.Tokens = {"c_plain"},
                     !.APIs = {"A1"}]}

InitJWKS == \E c \in JWKSCfgs : InitWith(c)

SpecJWKS == InitJWKS /\ [][NextJWKS]_vars

\* C7: inside one 240 s window of an API-ID at most one fetched key set is put into
\* the JWK cache (one successful GET, one cache Set), however the requests interleave.
C7_OneFetchPerWindow ==
    \A a \in APIIDs : jwkStat[a].sets <= 1

\* C15: getSecretFromURL hands a key to the verification only on success: whenever
\* it returns without an error (the request goes on to the signature check) the key
\* is not empty.
C15_KeyOnlyOnSuccess ==
    [][\A r \in Reqs :
          (pc[r] \in {"jwk_get", "jwk_fetch"} /\ pc'[r] = "jwt_verify")
          => loc'[r].secret # ""]_vars

-----------------------------------------------------------------------------
(* The verdict mapping under an arbitrary limiter.                            *)

VerdictCfgs ==
    {[BaseCfg EXCEPT !.Seed = "plain", !.Limiter = "any", !.CacheDisabled = TRUE,
                     !.Tokens = {"t_k1", "t_bad"}, !.APIs = {"A1"}]}

InitVerdict == \E c \in VerdictCfgs : InitWith(c)

SpecVerdict == InitVerdict /\ [][Chain]_vars

\* C10: the answer of RateLimitAndQuotaCheck follows the verdict: allowed -> 200 and
\* no event; reason 1 -> 429, one RateLimitExceeded event, a Throttle sample;
\* reason 2 -> 403, one QuotaExceeded event, a QuotaViolation sample; any other
\* reason -> 403 and no event.
C10_VerdictMapping ==
    \A r \in Reqs :
        resp[r].how = "limited" =>
            IF loc[r].forward
            THEN resp[r].code = 200 /\ resp[r].events = <<>>
            ELSE IF loc[r].reason = 1
            THEN /\ resp[r].code = 429
                 /\ resp[r].events = <<"RateLimitExceeded">>
                 /\ resp[r].health = <<"Throttle">>
            ELSE IF loc[r].reason = 2
            THEN /\ resp[r].code = 403
                 /\ resp[r].events = <<"QuotaExceeded">>
                 /\ resp[r].health = <<"QuotaViolation">>
            ELSE resp[r].code = 403 /\ resp[r].events = <<>>

\* A refusal for a reason that is neither rate nor quota.
C10_Witness ==
    \E r \in Reqs :
        /\ resp[r].how = "limited" /\ ~loc[r].forward /\ loc[r].reason = 3
        /\ resp[r].code = 403 /\ resp[r].events = <<>>

-----------------------------------------------------------------------------
(* Credential extraction: header, form parameter and cookie under use_param   *)
(* and use_cookie.                                                            *)

ExtractCfgs ==
    {[BaseCfg EXCEPT !.Seed = "plain", !.CacheDisabled = TRUE, !.APIs = {"A1"},
                     !.Tokens = {"", "t_k1"}, !.Forms = {"", "t_bad"},
                     !.Cookies = {"", "t_bad"}, !.UseParam = p, !.UseCookie = c] :
        p \in BOOLEAN, c \in BOOLEAN}

InitExtract == \E c \in ExtractCfgs : InitWith(c)

SpecExtract == InitExtract /\ [][Chain]_vars

\* The credential by priority: header, then form parameter, then cookie.
ByPriority(q) ==
    IF q.hdr # "" THEN q.hdr
    ELSE IF cfg.UseParam /\ q.form # "" THEN q.form
    ELSE IF cfg.UseCookie THEN q.cookie
    ELSE ""

\* C11: the credential a request is authenticated with is the first non-empty one of
\* header, form parameter (under use_param) and cookie (under use_cookie), and the
\* request is answered 400 only when all of them are empty.
C11_CredentialByPriority ==
    [][\A r \in Reqs :
          (pc[r] = "jwt" /\ pc'[r] # "jwt")
          => /\ loc'[r].cred = ByPriority(req[r])
             /\ (resp'[r].code = 400) <=> (ByPriority(req[r]) = "")]_vars

-----------------------------------------------------------------------------
(* The order of the steps of one request, with the key in the session (direct)  *)
(* and with the key in the API definition (central authority).                  *)

OrderCfgs ==
    {[BaseCfg EXCEPT !.Seed = "plain", !.CacheDisabled = TRUE, !.APIs = {"A1"},
                     !.Mode = m, !.Tokens = {"t_k1", "t_bad", "c_plain", "c_bad"}] :
        m \in {"direct", "inline"}}

InitOrder == \E c \in OrderCfgs : InitWith(c)

SpecOrder == InitOrder /\ [][Chain]_vars

\* The step that gets the verification key resolves no session and writes nothing.
NoResolutionBeforeVerify(r) ==
    (pc[r] = "jwt" /\ pc'[r] # "jwt")
    => /\ ~loc'[r].f1
       /\ sessionStore' = sessionStore
       /\ cacheTasks' = cacheTasks
       /\ lastCalls' = <<>>

\* The context is bound by the step that follows the signature check, to a session
\* that the resolution of that step found or created at the bound key.
BoundAfterResolution(r) ==
    (ctx'[r].sdSet /\ ~ctx[r].sdSet)
    => /\ pc[r] = "jwt_verify"
       /\ loc'[r].f2
       /\ ctx'[r].ak \in DOMAIN sessionStore'
       /\ ctx'[r].sd = loc'[r].s2

\* C16 as stated: no session is resolved (no read or write of the session ladder)
\* before the signature of the token is verified, and the context is bound only
\* after the resolution.
C16_ResolveOnlyAfterVerify ==
    [][\A r \in Reqs : NoResolutionBeforeVerify(r) /\ BoundAfterResolution(r)]_vars

\* C16 amended: with a configured key source no session is resolved before the
\* signature is verified; without one the key function resolves the session of the
\* token's identity to read its secret, before the signature check and without
\* binding anything; the context is bound only after the resolution that follows
\* the signature check.
C16_ResolveAfterVerifyWithKeySource ==
    [][\A r \in Reqs :
          /\ APISpec(req[r].api).JWTSource # "" => NoResolutionBeforeVerify(r)
          /\ (pc[r] = "jwt" /\ pc'[r] # "jwt") => ctx' = ctx
          /\ BoundAfterResolution(r)]_vars

C16_Witness ==
    /\ cfg.Mode = "inline"
    /\ \E r \in Reqs : /\ pc[r] = "authed"
                        /\ ctx[r].sdSet
                        /\ ctx[r].ak \in DOMAIN sessionStore
    /\ \E x \in Reqs : pc[x] = "jwt_verify" /\ ~loc[x].f1

-----------------------------------------------------------------------------
(* Selection of the limited session when the policy of an identity changes     *)
(* between two of its tokens and its base session has expired in between.       *)

NextSelect ==
    \/ Chain
    \/ \E k \in DOMAIN sessionStore : ExpireSession(k)

SelectCfgs ==
    {[BaseCfg EXCEPT !.Mode = "inline", !.CacheDisabled = TRUE, !.APIs = {"A1"},
                     !.Tokens = {"c_base", "c_move"}, !.Requests = MaxBurst]}

InitSelect == \E c \in SelectCfgs : InitWith(c)

SpecSelect == InitSelect /\ [][NextSelect]_vars

\* C17: the limiter works on the per-API session and key exactly when the bound
\* session's PolicyPerAPI has a non-empty entry for the current API and a session
\* exists at the per-API key; in every other case it works on the base session
\* and key.
C17_PerAPIIffEntryAndSession ==
    [][\A r \in Reqs :
          (pc[r] = "authed" /\ pc'[r] = "rl_write")
          => LET api == req[r].api
                 apiSessionKey == APISessionKey(ctx[r].ak, api)
                 entry == ~ctx[r].sd.PolicyPerAPI.isNil /\ ctx[r].sd.PolicyPerAPI.m[api] # ""
             IN loc'[r].key = IF entry /\ apiSessionKey \in DOMAIN sessionStore
                              THEN apiSessionKey
                              ELSE ctx[r].ak]_vars

\* C24: every session in the SessionStore was written with TTL = session lifetime
\* of the API, whichever step of request processing wrote it last.
C24_StoredWithSessionLifetime ==
    \A k \in DOMAIN sessionStore : \A api \in cfg.APIs :
        sessionStore[k].ttl = APISpec(api).SessionLifetime

\* C27: a key that is neither in the SessionStore nor in the AuthStore enters the
\* store only by a resolution or synthesis of the JWT middleware that did not find
\* it in the local cache: never by the counter write-back of the limiter and never
\* from a cache entry that outlived the stored session.
C27_RemovedKeyNotRecreated ==
    [][\A k \in DOMAIN sessionStore' \ (DOMAIN sessionStore \cup DOMAIN AuthStore) :
          /\ \E r \in Reqs : pc[r] \in {"jwt", "jwt_verify"} /\ pc'[r] # pc[r]
          /\ cfg.CacheDisabled \/ k \notin DOMAIN sessionCache]_vars

-----------------------------------------------------------------------------
(* The write-back of the limiter, synchronous and by goroutines.               *)

NextWrite ==
    \/ Chain
    \/ \E t \in writeTasks : BgUpdateSession(t)
    \/ \E t \in ctxTasks : BgContextSet(t)

WriteCfgs == {[BaseCfg EXCEPT !.CacheDisabled = TRUE, !.Async = a] : a \in BOOLEAN}

InitWrite == \E c \in WriteCfgs : InitWith(c)

SpecWrite == InitWrite /\ [][NextWrite]_vars

\* The Go scheduler runs every goroutine that is ready: a spawned write or context
\* update is not postponed for ever.
SpecWriteFair ==
    /\ SpecWrite
    /\ WF_vars(\E t \in writeTasks : BgUpdateSession(t))
    /\ WF_vars(\E t \in ctxTasks : BgContextSet(t))

\* Two sessions that differ at most in the fields the limiter updates.
SameButCounters(s1, s2) ==
    [s1 EXCEPT !.QuotaRemaining = 0, !.QuotaRenews = 0]
        = [s2 EXCEPT !.QuotaRemaining = 0, !.QuotaRenews = 0]

\* Two keyed tables that are equal at every key but `key`.
SameButAt(f, g, key) ==
    /\ DOMAIN f \ {key} = DOMAIN g \ {key}
    /\ \A k \in DOMAIN f \ {key} : f[k] = g[k]

\* C18: the key the limiter is asked with is the key the limited session was read
\* from and the key the updated session is written back to, and it is the base key
\* (AuthHeaderValue) or the base key followed by ".API-" and the API-ID.
C18_OneKeyThroughout ==
    [][\A r \in Reqs :
          /\ (pc[r] = "authed" /\ pc'[r] = "rl_write")
             => LET key == loc'[r].key IN
                /\ key \in {ctx[r].ak, APISessionKey(ctx[r].ak, req[r].api)}
                /\ key # ctx[r].ak => key \in DOMAIN sessionStore
                /\ SameButCounters(loc'[r].sess,
                                   IF key = ctx[r].ak THEN ctx[r].sd ELSE sessionStore[key].s)
                /\ key \in DOMAIN rateCtr'
                /\ SameButAt(rateCtr', rateCtr, key)
                /\ SameButAt(quotaCtr', quotaCtr, key)
          /\ (pc[r] = "rl_write" /\ pc'[r] = "responded")
             => /\ SameButAt(sessionStore', sessionStore, loc[r].key)
                /\ IF cfg.Async
                   THEN writeTasks' \ writeTasks \subseteq {[key |-> loc[r].key, s |-> loc[r].sess]}
                   ELSE sessionStore'[loc[r].key].s = loc[r].sess]_vars

C18_Witness ==
    \E r \in Reqs :
        /\ pc[r] = "responded" /\ resp[r].how = "limited"
        /\ loc[r].key = APISessionKey(ctx[r].ak, req[r].api)
        /\ loc[r].key \in DOMAIN sessionStore
        /\ sessionStore[loc[r].key].s = loc[r].sess

\* C19: without use_async_session_write the store entry at the limited key and the
\* SessionData of the context hold the limiter-updated session when ProcessRequest
\* returns; with it ProcessRequest returns with both left to background tasks, and
\* every such task is eventually performed.
C19_WriteBackSyncOrEventually ==
    /\ [][\A r \in Reqs :
             (pc[r] = "rl_write" /\ pc'[r] = "responded")
             => IF cfg.Async
                THEN /\ sessionStore' = sessionStore /\ ctx' = ctx
                     /\ [key |-> loc[r].key, s |-> loc[r].sess] \in writeTasks'
                     /\ [r |-> r, s |-> loc[r].sess] \in ctxTasks'
                ELSE /\ sessionStore'[loc[r].key].s = loc[r].sess
                     /\ ctx'[r].sdSet /\ ctx'[r].sd = loc[r].sess
                     /\ writeTasks' = {} /\ ctxTasks' = {}]_vars
    /\ (writeTasks # {} \/ ctxTasks # {}) ~> (writeTasks = {} /\ ctxTasks = {})

C19_Witness ==
    /\ cfg.Async
    /\ writeTasks = {} /\ ctxTasks = {}
    /\ \E r \in Reqs :
          /\ pc[r] = "responded" /\ resp[r].how = "limited"
          /\ ctx[r].sd = loc[r].sess
          /\ loc[r].key \in DOMAIN sessionStore /\ sessionStore[loc[r].key].s = loc[r].sess

-----------------------------------------------------------------------------
(* Keys from a JWKS URL for tokens with and without a kid header.              *)

KidCfgs ==
    {[BaseCfg EXCEPT !.Mode = "url", !.Method = "rsa", !.CacheDisabled = TRUE, !.APIs = {"A1"},
                     !.Tokens = {"c_plain", "c_nokid"}]}

InitKid == \E c \in KidCfgs : InitWith(c)

SpecKid == InitKid /\ [][NextJWKS]_vars

\* C22: with a JWKS URL as the key source, a request whose token has no kid header
\* is answered 403; it never ends in a crash and never goes to the JWK cache or
\* the URL.
C22_NoKidRefused ==
    \A r \in Reqs :
        (pc[r] # "idle" /\ TokenOf(ExtractCredential(req[r])).kid = Nil)
        => /\ pc[r] \in {"jwt", "responded"}
           /\ pc[r] = "responded" => resp[r].code = 403

-----------------------------------------------------------------------------
(* The signing-method gate under every declared method and both kinds of key   *)
(* source that retrieve something (session of the key, JWKS URL).              *)

GateCfgs ==
    {[BaseCfg EXCEPT !.Seed = "plain", !.CacheDisabled = TRUE, !.APIs = {"A1"},
                     !.Mode = m, !.Method = d, !.Tokens = {"t_k1", "c_plain", "e_k1"}] :
        m \in {"direct", "url"}, d \in {"hmac", "rsa", "ecdsa", "none"}}

InitGate == \E c \in GateCfgs : InitWith(c)

SpecGate == InitGate /\ [][NextJWKS]_vars

\* The algorithm family the API expects: the declared one, HMAC for any other value.
ExpectedFamily ==
    IF cfg.Method = "rsa" THEN "RSA" ELSE IF cfg.Method = "ecdsa" THEN "ECDSA" ELSE "HMAC"

\* C23: a token whose algorithm family is not the one the API declares (HMAC when
\* the declared value is not hmac, rsa or ecdsa) is answered 403 by the step that
\* parsed it, and for it the JWK cache is not touched, no key set is fetched and no
\* session is resolved; the request never gets to key retrieval or beyond.
C23_GateBeforeKeyRetrieval ==
    [][\A r \in Reqs :
          (pc'[r] # "idle" /\ TokenOf(ExtractCredential(req'[r])).alg # ExpectedFamily)
          => /\ pc'[r] \in {"jwt", "responded"}
             /\ (pc[r] = "jwt" /\ pc'[r] # "jwt")
                   => /\ resp'[r].code = 403
                      /\ JWKCache' = JWKCache /\ jwkStat' = jwkStat
                      /\ sessionStore' = sessionStore /\ cacheTasks' = cacheTasks
                      /\ lastCalls' = <<>> /\ ~loc'[r].f1]_vars

\* A refused RSA token under an unrecognized declared method, the JWK cache never
\* created, next to a request that passed the gate.
C23_Witness ==
    /\ cfg.Mode = "url" /\ cfg.Method = "none"
    /\ JWKCache.nil
    /\ \E r \in Reqs : /\ pc[r] = "responded" /\ resp[r].code = 403
                        /\ req[r].hdr = "c_plain"
    /\ \E x \in Reqs : pc[x] = "crashed" /\ req[x].hdr = "t_k1"

-----------------------------------------------------------------------------
(* Counters of the stored session against the counters of the limiter.         *)

\* C25: no counter update is lost and no older snapshot replaces a stored counter:
\* whenever no request is between the limiter and its write-back and no write-back
\* goroutine is pending, the quota-remaining stored for a key the limiter counts is
\* the current value of the limiter's counter.
C25_StoreAuthoritativeForCounters ==
    ((\A r \in Reqs : pc[r] # "rl_write") /\ writeTasks = {})
    => \A k \in DOMAIN sessionStore \cap DOMAIN quotaCtr :
          sessionStore[k].s.QuotaRemaining = quotaCtr[k].remaining

-----------------------------------------------------------------------------
(* Forged and genuine tokens for keys that hold their own secret, with        *)
(* sessions that name a policy or map the API to one; store entries expire.    *)

RefusedCfgs ==
    {[BaseCfg EXCEPT !.Seed = seed, !.CacheDisabled = TRUE, !.APIs = {"A1"},
                     !.Tokens = {"t_k1", "t_bad"}] : seed \in {"map", "pol"}}

InitRefused == \E c \in RefusedCfgs : InitWith(c)

SpecRefused == InitRefused /\ [][NextSelect]_vars

\* C26: a request that the JWT middleware refuses leaves the SessionStore as it
\* was: no step of a request whose token is not signed with the right key, and no
\* step that answers 400 or 403 for the middleware, writes the store.
C26_RefusedLeavesStore ==
    [][\A r \in Reqs :
          (/\ pc[r] \in {"jwt", "jwt_verify"} /\ pc'[r] # pc[r]
           /\ \/ TokenOf(ExtractCredential(req[r])).signedWith = "forged"
              \/ (pc'[r] = "responded" /\ resp'[r].code \in {400, 403}))
          => sessionStore' = sessionStore]_vars

====
